---- MODULE Spec2Model ----
(***************************************************************************)
(* Permutation tests of hyppo: DiscrimOneSample.test (discrim_one_samp.py) *)
(* and MGCX.test (time_series/mgcx.py).  One call of test() on one         *)
(* instance: the observed statistic, the reps permutation statistics       *)
(* mapped by MapWrapper(workers) sequentially or over a pool of forked     *)
(* worker processes, and the p-value.                                      *)
(* MGCX.test delegates to TimeSeriesTest.test, which is taken to run the   *)
(* same permutation engine as DiscrimOneSample.test with self._statistic   *)
(* as the statistic of every draw.                                         *)
(* A statistic is a rational, written <<numerator, denominator>>.          *)
(***************************************************************************)
EXTENDS Integers, Sequences, FiniteSets, TLC

\* ------------------------------------------------------------- bounds
MaxReps == 2
MaxLag == 1
MaxWorkers == 2
RngMod == 3

\* ------------------------------------------------------------- inputs
\* x is the first sample, y the second (labels / second series), n = 3.
XData == <<1, 2, 2>>
YData == {<<1, 2, 2>>, <<2, 1, 2>>, <<1, 1, 2>>, <<1, 1, 1>>}
Kinds == {"discrim", "mgcx"}
WorkerChoices == {1, -1} \cup (2..MaxWorkers)
RepsChoices == 1..MaxReps
Seeds == 0..(RngMod - 1)

\* "not set" values of the instance attributes and of the return value
NoStat == <<0, 0>>
NoLag == -1
NoScale == <<0, 0>>
NoDist == <<>>
NoRet == [stat |-> NoStat, pvalue |-> NoStat, opt_lag |-> NoLag, opt_scale |-> NoScale]

\* ------------------------------------------------------------- rationals
RatGeq(a, b) == a[1] * b[2] >= b[1] * a[2]
RatEq(a, b) == a[1] * b[2] = b[1] * a[2]

\* ------------------------------------------------------------- statistic kernels
RECURSIVE SumOver(_, _)
SumOver(f, S) ==
    IF S = {} THEN 0
    ELSE LET e == CHOOSE e \in S : TRUE IN f[e] + SumOver(f, S \ {e})

\* The kernel: a pure function of its two samples (agreeing positions).
Kernel(xs, ys) == Cardinality({i \in 1..Len(xs) : xs[i] = ys[i]})

\* The auxiliary payload of the multiscale kernel: a pair of scale indices.
KernelScale(xs, ys) ==
    LET agree == {i \in 1..Len(xs) : xs[i] = ys[i]}
        k == IF agree = {} THEN Len(xs) ELSE CHOOSE i \in agree : \A j \in agree : i <= j
    IN <<k, Len(ys)>>

\* x[j:n] and y[0:(n-j)]
SliceX(xs, j) == SubSeq(xs, j + 1, Len(xs))
SliceY(ys, j) == SubSeq(ys, 1, Len(ys) - j)

\* (n-j)/n * kernel(x[j:n], y[0:n-j]), as a numerator over n
LagTerm(xs, ys, j) == (Len(xs) - j) * Kernel(SliceX(xs, j), SliceY(ys, j))

\* the cumulative weighted statistic over lags 0..L, as a numerator over n
CumStat(xs, ys, L) == SumOver([j \in 0..L |-> LagTerm(xs, ys, j)], 0..L)

\* compute_stat(x, y, indep_test, compute_distance, max_lag) -> stat, opt_lag
compute_stat(xs, ys, max_lag) ==
    LET best == CHOOSE L \in 0..max_lag :
                    /\ \A M \in 0..max_lag : CumStat(xs, ys, L) >= CumStat(xs, ys, M)
                    /\ \A M \in 0..max_lag :
                          CumStat(xs, ys, M) = CumStat(xs, ys, L) => L <= M
    IN [stat |-> <<CumStat(xs, ys, best), Len(xs)>>, opt_lag |-> best, lags |-> 0..max_lag]

\* compute_scale_at_lag(x, y, opt_lag, compute_distance) -> opt_scale
compute_scale_at_lag(xs, ys, opt_lag) == KernelScale(SliceX(xs, opt_lag), SliceY(ys, opt_lag))

\* ------------------------------------------------------------- _statistic
\* DiscrimOneSample._statistic: the base class statistic, returned unchanged.
Discrim_statistic(xs, ys) ==
    [stat |-> <<Kernel(xs, ys), 1>>, opt_lag |-> NoLag, opt_scale |-> NoScale, lags |-> {0}]

statistic_max_lag_zero(slf) == 0
statistic_max_lag_plus(slf) == slf.max_lag + 1
\* the max_lag argument MGCX._statistic hands to compute_stat
statistic_max_lag(slf) == slf.max_lag

\* MGCX._statistic: the lag search, then the scale at the optimal lag.
MGCX_statistic(slf, xs, ys) ==
    LET r == compute_stat(xs, ys, statistic_max_lag(slf))
    IN [stat |-> r.stat, opt_lag |-> r.opt_lag,
        opt_scale |-> compute_scale_at_lag(xs, ys, r.opt_lag), lags |-> r.lags]

\* MGCX._statistic assigns its three results to the instance it runs on.
MGCX_statistic_assign(slf, r) ==
    [slf EXCEPT !.stat = r.stat, !.opt_lag = r.opt_lag, !.opt_scale = r.opt_scale]

\* self._statistic(x, y) of either family
Statistic(k, slf, xs, ys) ==
    IF k = "mgcx" THEN MGCX_statistic(slf, xs, ys) ELSE Discrim_statistic(xs, ys)

\* ------------------------------------------------------------- np.random
\* The process-global generator: one step of its state.
NextRng(s) == (s + 1) % RngMod

Swap(q, i, j) == [q EXCEPT ![i] = q[j], ![j] = q[i]]

\* np.random.permutation(y): a shuffle of a copy of y, from position n down,
\* each step drawing from and advancing the generator of the calling process.
RECURSIVE Shuffle(_, _, _)
Shuffle(q, i, s) ==
    IF i < 2 THEN [perm |-> q, state |-> s]
    ELSE Shuffle(Swap(q, i, (s % i) + 1), i - 1, NextRng(s))

random_permutation(ys, s) == Shuffle(ys, Len(ys), s)

\* ------------------------------------------------------------- MapWrapper
Parent == 0
\* the cores of the host, which workers = -1 asks for
NumCores == MaxWorkers
PoolSize(workers) == IF workers = -1 THEN NumCores ELSE workers
Procs == 0..MaxWorkers

MapStoreByOrder(out, index, order, value) == [out EXCEPT ![order + 1] = value]
\* list(mapwrapper(f, range(reps))): the result of f(index) is element index.
MapStore(out, index, order, value) == [out EXCEPT ![index + 1] = value]

\* ------------------------------------------------------------- p-value
NullGt(nv, stat) == ~RatGeq(stat, nv)
\* null_dist >= stat, elementwise
NullGeq(nv, stat) == RatGeq(nv, stat)

\* ((null_dist >= stat).sum()) / reps
pvalue_raw(null_dist, stat, reps) ==
    <<Cardinality({i \in 1..Len(null_dist) : NullGeq(null_dist[i], stat)}), reps>>

pvalue_uncorrected(p, reps) == p
\* if pvalue == 0: pvalue = 1 / reps
pvalue_correct(p, reps) == IF p[1] = 0 THEN <<1, reps>> ELSE p

mgcx_dict_of_self(stat_list, slf) == [opt_lag |-> slf.opt_lag, opt_scale |-> slf.opt_scale]
\* mgcx_dict = {"opt_lag": stat_list[1], "opt_scale": stat_list[2]}
mgcx_dict(stat_list, slf) == [opt_lag |-> stat_list.opt_lag, opt_scale |-> stat_list.opt_scale]

\* ------------------------------------------------------------- input validation
\* _CheckInputs: at least two distinct labels (discriminability); max_lag < n.
Valid(k, a, max_lag) ==
    IF k = "discrim" THEN Cardinality({a.y[i] : i \in 1..Len(a.y)}) >= 2
    ELSE max_lag < Len(a.x)

\* ------------------------------------------------------------- state
VARIABLES
    kind,       \* the test family of the instance
    args,       \* the arguments of the call: x, y, reps, workers
    self,       \* the attributes of the instance
    pc,         \* "start", "map", "done" (returned), "raised"
    stat_list,  \* the observed result held by the running test()
    pool,       \* the pool of the call's MapWrapper: "none", "open", "closed"
    rng,        \* the state of np.random's generator in each process
    task,       \* the calls _perm_stat(index), index in 0..reps-1
    map_out,    \* the sequence the map is assembling
    ret,        \* what test() returned
    err         \* the exception that left test(), "" if none

vars == <<kind, args, self, pc, stat_list, pool, rng, task, map_out, ret, err>>

Indices == 0..(args.reps - 1)

NoTask == [status |-> "todo", by |-> Parent, order |-> 0, permy |-> <<>>,
           result |-> NoStat, opt_lag |-> NoLag, opt_scale |-> NoScale,
           lags |-> {}, prior |-> {}]

NoStatList == [stat |-> NoStat, opt_lag |-> NoLag, opt_scale |-> NoScale, lags |-> {}]

Init ==
    /\ kind \in Kinds
    /\ args \in [x : {XData}, y : YData, reps : RepsChoices, workers : WorkerChoices]
    /\ \E m \in 0..MaxLag :
          /\ kind = "discrim" => m = 0
          /\ self = [max_lag |-> m, x |-> <<>>, y |-> <<>>, stat |-> NoStat,
                     opt_lag |-> NoLag, opt_scale |-> NoScale,
                     null_dist |-> NoDist, pvalue_ |-> NoStat]
    /\ pc = "start"
    /\ stat_list = NoStatList
    /\ pool = "none"
    /\ \E s \in Seeds : rng = [p \in Procs |-> s]
    /\ task = [i \in Indices |-> NoTask]
    /\ map_out = [i \in 1..args.reps |-> NoStat]
    /\ ret = NoRet
    /\ err = ""

\* ------------------------------------------------------------- test()
Sequential == args.workers = 1
Finished(i) == task[i].status # "todo"
NoPermFailed == FALSE
\* some _perm_stat call raised: the exception leaves the map and test()
PermFailed == \E i \in Indices : task[i].status = "failed"
AllFinished == \A i \in Indices : Finished(i)

\* The validator rejects the input: nothing is computed.
CheckInputsRaises ==
    /\ pc = "start"
    /\ ~Valid(kind, args, self.max_lag)
    /\ pc' = "raised"
    /\ err' = "InvalidInput"
    /\ UNCHANGED <<kind, args, self, stat_list, pool, rng, task, map_out, ret>>

\* test() up to the construction of the MapWrapper: validation, self.x and
\* self.y, the observed statistic (recorded on the instance), and the pool,
\* whose worker processes are forked with the parent's generator state.
TestBegin ==
    /\ pc = "start"
    /\ Valid(kind, args, self.max_lag)
    /\ LET s1 == [self EXCEPT !.x = args.x, !.y = args.y]
           r == Statistic(kind, s1, args.x, args.y)
       IN /\ stat_list' = r
          /\ self' = IF kind = "mgcx" THEN MGCX_statistic_assign(s1, r)
                     ELSE [s1 EXCEPT !.stat = r.stat]
    /\ pool' = IF Sequential THEN "none" ELSE "open"
    /\ rng' = [p \in Procs |-> rng[Parent]]
    /\ pc' = "map"
    /\ UNCHANGED <<kind, args, task, map_out, ret, err>>

\* The statistic of the observed data raises: test() is left before any
\* MapWrapper exists.
TestBeginRaises ==
    /\ pc = "start"
    /\ Valid(kind, args, self.max_lag)
    /\ self' = [self EXCEPT !.x = args.x, !.y = args.y]
    /\ pc' = "raised"
    /\ err' = "StatisticComputation"
    /\ UNCHANGED <<kind, args, stat_list, pool, rng, task, map_out, ret>>

\* Who may run _perm_stat(i) now: the parent, in index order, stopping at the
\* first failure (map); any worker of the pool, in any order (Pool.map).
MayRun(w, i) ==
    /\ pc = "map"
    /\ task[i].status = "todo"
    /\ IF Sequential
       THEN /\ w = Parent
            /\ ~PermFailed
            /\ \A j \in Indices : j < i => Finished(j)
       ELSE w \in 1..PoolSize(args.workers)

RanBefore(w) == {j \in Indices : Finished(j) /\ task[j].by = w}
Order == Cardinality({j \in Indices : Finished(j)})

\* _perm_stat(i) in process w: permy from the generator of w, then the
\* statistic of (self.x, permy).  MGCX._statistic assigns to the instance of
\* the process it runs in: the caller's instance when w is the parent, a
\* copy of it when w is a pool worker.
PermStat(w, i) ==
    /\ MayRun(w, i)
    /\ LET d == random_permutation(self.y, rng[w])
           r == Statistic(kind, self, self.x, d.perm)
       IN /\ rng' = [rng EXCEPT ![w] = d.state]
          /\ task' = [task EXCEPT ![i] =
                        [status |-> "done", by |-> w, order |-> Order, permy |-> d.perm,
                         result |-> r.stat, opt_lag |-> r.opt_lag,
                         opt_scale |-> r.opt_scale, lags |-> r.lags,
                         prior |-> RanBefore(w)]]
          /\ map_out' = MapStore(map_out, i, Order, r.stat)
          /\ self' = IF kind = "mgcx" /\ w = Parent
                     THEN MGCX_statistic_assign(self, r) ELSE self
    /\ UNCHANGED <<kind, args, pc, stat_list, pool, ret, err>>

\* _perm_stat(i) in process w raises inside the statistic, after the draw.
\* The map keeps the first exception only; later ones change nothing.
PermStatRaises(w, i) ==
    /\ MayRun(w, i)
    /\ ~PermFailed
    /\ LET d == random_permutation(self.y, rng[w])
       IN /\ rng' = [rng EXCEPT ![w] = d.state]
          /\ task' = [task EXCEPT ![i] =
                        [NoTask EXCEPT !.status = "failed", !.by = w, !.order = Order,
                                       !.permy = d.perm, !.prior = RanBefore(w)]]
    /\ UNCHANGED <<kind, args, self, pc, stat_list, pool, map_out, ret, err>>

\* The rest of test(): null_dist, the p-value, the return.  test() never
\* closes its MapWrapper; on return the frame drops the only reference to
\* it, and its finalizer (MapWrapper.__del__) terminates the pool.
TestFinish ==
    /\ pc = "map"
    /\ AllFinished
    /\ ~PermFailed
    /\ LET stat == stat_list.stat
           pvalue == pvalue_correct(pvalue_raw(map_out, stat, args.reps), args.reps)
           info == IF kind = "mgcx" THEN mgcx_dict(stat_list, self)
                   ELSE [opt_lag |-> NoLag, opt_scale |-> NoScale]
       IN /\ self' = IF kind = "mgcx" THEN [self EXCEPT !.null_dist = map_out]
                     ELSE [self EXCEPT !.null_dist = map_out, !.pvalue_ = pvalue]
          /\ ret' = [stat |-> stat, pvalue |-> pvalue,
                     opt_lag |-> info.opt_lag, opt_scale |-> info.opt_scale]
    /\ pool' = IF pool = "open" THEN "closed" ELSE pool
    /\ pc' = "done"
    /\ UNCHANGED <<kind, args, stat_list, rng, task, map_out, err>>

\* A permutation statistic raised: the exception leaves test().  The
\* traceback keeps the frame, so the MapWrapper and its pool stay alive.
TestRaises ==
    /\ pc = "map"
    /\ PermFailed
    /\ Sequential \/ AllFinished
    /\ pc' = "raised"
    /\ err' = "StatisticComputation"
    /\ UNCHANGED <<kind, args, self, stat_list, pool, rng, task, map_out, ret>>

\* MapWrapper.__del__ after an exception: once the caller drops the
\* traceback the wrapper is finalized, which closes and terminates its pool.
Finalize ==
    /\ pc = "raised"
    /\ pool = "open"
    /\ pool' = "closed"
    /\ UNCHANGED <<kind, args, self, pc, stat_list, rng, task, map_out, ret, err>>

Next ==
    \/ CheckInputsRaises
    \/ TestBegin
    \/ TestBeginRaises
    \/ \E w \in Procs, i \in Indices : PermStat(w, i)
    \/ \E w \in Procs, i \in Indices : PermStatRaises(w, i)
    \/ TestFinish
    \/ TestRaises
    \/ Finalize

Spec == Init /\ [][Next]_vars

\* ------------------------------------------------------------- properties
Returned == pc = "done"
Exited == pc \in {"done", "raised"}
Discrim == kind = "discrim"
Mgcx == kind = "mgcx"
\* the number of null values >= the returned statistic, counted directly
CountGeq == Cardinality({i \in Indices :
                task[i].result[1] * ret.stat[2] >= ret.stat[1] * task[i].result[2]})

\* C1: the p-value test() returns satisfies 1/reps <= p <= 1 and is never 0.
C1_PValueBounds ==
    (Returned /\ Discrim) =>
        /\ ret.pvalue[2] = args.reps
        /\ ret.pvalue[1] * args.reps >= ret.pvalue[2]
        /\ ret.pvalue[1] <= ret.pvalue[2]
        /\ ret.pvalue[1] # 0

\* C1 witness: a return where no null value reaches the statistic, reps >= 2.
C1_Witness ==
    Returned /\ Discrim /\ args.reps >= 2 /\ CountGeq = 0 /\ ret.pvalue = <<1, args.reps>>

\* C2: the p-value is (number of null values >= the statistic) / reps when
\* that number is >= 1 and 1/reps when it is 0; an equal null value counts.
C2_PValueFormula ==
    (Returned /\ Discrim) =>
        ret.pvalue = IF CountGeq >= 1 THEN <<CountGeq, args.reps>> ELSE <<1, args.reps>>

\* C2 witness: a return with a null value equal to the statistic and one below it.
C2_Witness ==
    /\ Returned /\ Discrim
    /\ \E i \in Indices : task[i].result = ret.stat
    /\ \E i \in Indices : ~RatGeq(task[i].result, ret.stat)
    /\ ret.pvalue[1] = CountGeq

\* C3: when the statistic raises for the observed data or for any draw,
\* test() returns nothing and records no p-value: the call ends raised.
C3_FailurePropagates ==
    (Discrim /\ (err = "StatisticComputation" \/ \E i \in Indices : task[i].status = "failed")) =>
        /\ pc # "done"
        /\ ret = NoRet
        /\ self.pvalue_ = NoStat
        /\ self.null_dist = NoDist

\* C3 witness: a parallel call that raised with one draw failed, another done.
C3_Witness ==
    /\ pc = "raised" /\ Discrim /\ ~Sequential /\ err = "StatisticComputation"
    /\ \E i \in Indices : task[i].status = "failed"
    /\ \E i \in Indices : task[i].status = "done"

\* C4: once test() has exited, by return or by exception, the pool it
\* created is no longer open.
C4_PoolTornDown == (Exited /\ Discrim) => pool # "open"

\* C5: every draw reads a generator state of its own: no other draw has
\* mutated the generator a draw reads, whichever process runs it.
C5_IndependentDraws ==
    Discrim => \A i \in Indices : Finished(i) => task[i].prior = {}

\* C6: null_dist has reps entries and entry i is the result of the
\* permutation computation invoked with index i, for every workers setting.
C6_IndexOrder ==
    (Returned /\ Discrim) =>
        /\ Len(self.null_dist) = args.reps
        /\ \A i \in Indices : self.null_dist[i + 1] = task[i].result

\* C6 witness: a pool ran two draws with different results out of index order.
C6_Witness ==
    /\ Returned /\ Discrim /\ ~Sequential
    /\ \E i, j \in Indices :
          /\ i < j
          /\ task[i].order > task[j].order
          /\ task[i].result # task[j].result

\* C7: every MGCX permutation draw runs the lag search over all lags
\* 0..max_lag on the permuted pair, as the observed statistic does.
C7_PermReSearches ==
    Mgcx =>
        /\ pc \in {"map", "done"} => stat_list.lags = 0..self.max_lag
        /\ \A i \in Indices : task[i].status = "done" =>
              /\ task[i].lags = 0..self.max_lag
              /\ task[i].result = compute_stat(args.x, task[i].permy, self.max_lag).stat
              /\ task[i].opt_lag = compute_stat(args.x, task[i].permy, self.max_lag).opt_lag

\* C7 witness: a returned call with max_lag >= 1 where a draw found another
\* best lag than the observed pair.
C7_Witness ==
    /\ Returned /\ Mgcx /\ self.max_lag >= 1 /\ args.reps >= 2
    /\ \E i \in Indices : task[i].opt_lag # stat_list.opt_lag

\* C8: the info MGCX.test() returns holds the best lag of the observed pair
\* and the scale of the observed pair at that lag, never a permuted pair's.
C8_InfoFromObserved ==
    (Returned /\ Mgcx) =>
        /\ ret.opt_lag = compute_stat(args.x, args.y, self.max_lag).opt_lag
        /\ ret.opt_scale = compute_scale_at_lag(args.x, args.y, ret.opt_lag)

\* C8 witness: a sequential call whose last draw left another lag and scale
\* on the instance than the ones returned.
C8_Witness ==
    /\ Returned /\ Mgcx /\ Sequential
    /\ self.opt_lag # ret.opt_lag
    /\ self.opt_scale # ret.opt_scale

NonLaggedNull == [i \in 1..args.reps |-> Discrim_statistic(args.x, task[i - 1].permy).stat]

C10_RecordedIsObserved ==
    Returned =>
        /\ self.stat = ret.stat
        /\ Mgcx => /\ self.opt_lag = stat_list.opt_lag
                   /\ self.opt_scale = stat_list.opt_scale

====
